---- MODULE Spec2Model ----
(***************************************************************************)
(* Model of zstd-wasm-vn (src/src/lib.rs): the one-shot codec facade, the  *)
(* streaming ZstdCompressor / ZstdDecompressor sessions and the size       *)
(* utilities, over a scaled-down model of the zstd frame format.           *)
(*                                                                         *)
(* Byte vectors are sequences of naturals.  Option<T> is a sequence of     *)
(* length 0 (None) or 1 (Some).  Result<Vec<u8>, JsValue> is a record      *)
(* [ok, val, err, codec]: val is the Ok payload, err the JsValue message,  *)
(* codec records whether the call reached the zstd codec.                  *)
(***************************************************************************)
EXTENDS Integers, Sequences, FiniteSets, TLC

\* ------------------------------------------------------------- bounds
MaxByte == 1
MaxLen == 3
BlockSize == 2
MaxChunk == 2

\* ---------------------------------------------------------- constants
DEFAULT_COMPRESSION_LEVEL == 6
MIN_COMPRESSION_LEVEL == 1
MAX_COMPRESSION_LEVEL == 22

Byte == 0..MaxByte

RECURSIVE SeqsUpTo(_, _)
SeqsUpTo(S, n) ==
  IF n = 0 THEN {<<>>}
  ELSE LET shorter == SeqsUpTo(S, n - 1)
       IN  shorter \cup {Append(s, b) : s \in {t \in shorter : Len(t) = n - 1}, b \in S}

\* the byte vectors a caller passes as data, chunk or dictionary
Data == SeqsUpTo(Byte, MaxLen)
Dicts == {<<>>, <<0, 1>>, <<0, 1, 1, 0, 0, 0, 1, 1>>, <<55, 164, 48, 236, 0, 0, 0, 0>>}
\* Option<i32> level arguments: omitted, in range, and just outside the range
LevelInputs == {<<>>, <<-1>>, <<0>>, <<1>>, <<6>>, <<22>>, <<23>>}

None == <<>>
Some(x) == <<x>>
unwrap_or(opt, d) == IF opt = None THEN d ELSE opt[1]

Ok(v, touched) == [ok |-> TRUE, val |-> v, err |-> "", codec |-> touched]
Err(msg, touched) == [ok |-> FALSE, val |-> <<>>, err |-> msg, codec |-> touched]

Min(a, b) == IF a <= b THEN a ELSE b

\* ------------------------------------------------- zstd frame format
\* Frame := Magic, frame header descriptor, then either the one-byte frame
\* content size (single-segment frame, written when the size is known at the
\* first codec call) or the window descriptor, then blocks.  A block is a
\* header symbol last + 2*type + 8*size followed by its payload.
Magic == <<40, 181, 47, 253>>
FHD_SingleSegment == 32
FHD_Window == 0
BT_Raw == 0
BT_Rle == 1
BT_Compressed == 2

\* window descriptor the encoder writes for a level (windowLog per level)
WindowDescriptor(level) ==
  IF level <= 1 THEN 72
  ELSE IF level = 2 THEN 80
  ELSE IF level <= 8 THEN 88
  ELSE IF level <= 16 THEN 96
  ELSE IF level <= 19 THEN 104
  ELSE IF level = 20 THEN 120
  ELSE IF level = 21 THEN 128
  ELSE 136

BlockHeader(last, type, size) == last + 2 * type + 8 * size

IsUniform(b) == \A i \in 1..Len(b) : b[i] = b[1]

\* offsets (1-based) at which block b occurs in the dictionary content
DictOffsets(b, dict) ==
  {o \in 1..Len(dict) : o + Len(b) - 1 <= Len(dict)
                        /\ SubSeq(dict, o, o + Len(b) - 1) = b}

\* one block: a match in the dictionary, else a run, else raw bytes
EncodeBlock(b, last, dict) ==
  IF Len(b) >= 2 /\ DictOffsets(b, dict) # {}
  THEN <<BlockHeader(last, BT_Compressed, Len(b)),
         CHOOSE o \in DictOffsets(b, dict) : \A p \in DictOffsets(b, dict) : o <= p>>
  ELSE IF Len(b) >= 2 /\ IsUniform(b)
  THEN <<BlockHeader(last, BT_Rle, Len(b)), b[1]>>
  ELSE <<BlockHeader(last, BT_Raw, Len(b))>> \o b

\* Encoder<'static, Vec<u8>>: the level, the dictionary content, whether the
\* compression context has been initialised by a write, the input buffered
\* towards the next block and the bytes already written to the Vec sink.
NewEncoder(level, dict) ==
  [level |-> level, dict |-> dict, started |-> FALSE, inBuff |-> <<>>, out |-> <<>>]

RECURSIVE FlushFullBlocks(_, _, _)
FlushFullBlocks(buf, dict, out) ==
  IF Len(buf) < BlockSize THEN [inBuff |-> buf, out |-> out]
  ELSE FlushFullBlocks(SubSeq(buf, BlockSize + 1, Len(buf)), dict,
                       out \o EncodeBlock(SubSeq(buf, 1, BlockSize), 0, dict))

\* Write::write_all: no codec call for an empty slice; otherwise the first
\* write starts the frame with an unknown content size, and every block that
\* fills up is compressed and written out.
EncoderWriteAll(enc, data) ==
  IF data = <<>> THEN enc
  ELSE LET hdr == IF enc.started THEN enc.out
                  ELSE Magic \o <<FHD_Window, WindowDescriptor(enc.level)>>
           f == FlushFullBlocks(enc.inBuff \o data, enc.dict, hdr)
       IN  [enc EXCEPT !.started = TRUE, !.inBuff = f.inBuff, !.out = f.out]

\* Encoder::finish: end of input.  A context that was never written to is
\* initialised here with the content size known (0); the buffered input goes
\* out as the last block.  Returns the Vec sink.
EncoderFinish(enc) ==
  LET hdr == IF enc.started THEN enc.out
             ELSE Magic \o <<FHD_SingleSegment, Len(enc.inBuff)>>
  IN  hdr \o EncodeBlock(enc.inBuff, 1, enc.dict)

\* --------------------------------------------------------- zstd decoder
\* Decoding yields the bytes produced before the first fault and whether the
\* whole input was a sequence of complete frames.
Repeat(b, n) == [i \in 1..n |-> b]

RECURSIVE DecodeBlocks(_, _, _, _)
DecodeBlocks(c, pos, dict, acc) ==
  IF pos > Len(c) THEN [data |-> acc, ok |-> FALSE, next |-> pos]
  ELSE
    LET hdr == c[pos]
        last == hdr % 2
        type == (hdr \div 2) % 4
        size == hdr \div 8
        need == IF type = BT_Raw THEN size ELSE 1
        payload == SubSeq(c, pos + 1, pos + need)
        fits == pos + need <= Len(c)
        valid == /\ hdr >= 0
                 /\ fits
                 /\ type \in {BT_Raw, BT_Rle, BT_Compressed}
                 /\ type = BT_Compressed =>
                      /\ payload[1] >= 1
                      /\ payload[1] + size - 1 <= Len(dict)
        bytes == IF type = BT_Raw THEN payload
                 ELSE IF type = BT_Rle THEN Repeat(payload[1], size)
                 ELSE SubSeq(dict, payload[1], payload[1] + size - 1)
    IN  IF ~valid THEN [data |-> acc, ok |-> FALSE, next |-> pos]
        ELSE IF last = 1 THEN [data |-> acc \o bytes, ok |-> TRUE, next |-> pos + need + 1]
        ELSE DecodeBlocks(c, pos + need + 1, dict, acc \o bytes)

RECURSIVE DecodeFrames(_, _, _)
DecodeFrames(c, dict, acc) ==
  IF Len(c) < 6 \/ SubSeq(c, 1, 4) # Magic \/ c[5] \notin {FHD_SingleSegment, FHD_Window}
  THEN [data |-> acc, ok |-> FALSE]
  ELSE
    LET r == DecodeBlocks(c, 7, dict, <<>>)
        sizeOk == c[5] = FHD_SingleSegment => Len(r.data) = c[6]
    IN  IF ~r.ok \/ ~sizeOk THEN [data |-> acc \o r.data, ok |-> FALSE]
        ELSE IF r.next > Len(c) THEN [data |-> acc \o r.data, ok |-> TRUE]
        ELSE DecodeFrames(SubSeq(c, r.next, Len(c)), dict, acc \o r.data)

\* Decoder<'static, BufReader<Cursor<Vec<u8>>>>: the compressed input, the
\* dictionary content and how many decompressed bytes reads have returned.
\* Creating it reads nothing from the input.
NewDecoder(input, dict) == [input |-> input, dict |-> dict, pos |-> 0]

Decoded(dec) == DecodeFrames(dec.input, dec.dict, <<>>)
Pending(dec) == Len(Decoded(dec).data) - dec.pos

\* Read::read_to_end: everything not yet returned, or the decoder's error
ReadToEnd(dec) ==
  LET d == Decoded(dec)
  IN  [ok |-> d.ok, val |-> SubSeq(d.data, dec.pos + 1, Len(d.data))]

\* ------------------------------------------------------- codec facade
LevelError ==
  Err("Compression level must be between 1 and 22", FALSE)

\* compress that returns the sink without finishing the encoder
compress_unfinished(data, level) ==
  LET compression_level == unwrap_or(level, DEFAULT_COMPRESSION_LEVEL)
  IN  IF compression_level < MIN_COMPRESSION_LEVEL \/ compression_level > MAX_COMPRESSION_LEVEL
      THEN LevelError
      ELSE Ok(EncoderWriteAll(NewEncoder(compression_level, <<>>), data).out, TRUE)

\* compress that falls back to the highest level when none is given
compress_default_max(data, level) ==
  LET compression_level == unwrap_or(level, MAX_COMPRESSION_LEVEL)
  IN  IF compression_level < MIN_COMPRESSION_LEVEL \/ compression_level > MAX_COMPRESSION_LEVEL
      THEN LevelError
      ELSE Ok(EncoderFinish(EncoderWriteAll(NewEncoder(compression_level, <<>>), data)), TRUE)

compress(data, level) ==
  LET compression_level == unwrap_or(level, DEFAULT_COMPRESSION_LEVEL)
  IN  IF compression_level < MIN_COMPRESSION_LEVEL \/ compression_level > MAX_COMPRESSION_LEVEL
      THEN LevelError
      ELSE Ok(EncoderFinish(EncoderWriteAll(NewEncoder(compression_level, <<>>), data)), TRUE)

\* a zstd dictionary starts with this magic number; shorter inputs and inputs
\* without it are raw content.  The codec ignores content shorter than
\* MinDictSize when compressing.
DictMagic == <<55, 164, 48, 236>>
MinDictSize == 8
IsStructuredDict(dict) == Len(dict) >= MinDictSize /\ SubSeq(dict, 1, 4) = DictMagic

\* EncoderDictionary::copy / DecoderDictionary::copy digest the dictionary:
\* Some(content the codec will reference), or None when the codec returns a
\* null dictionary (a structured dictionary whose tables do not parse; every
\* structured dictionary of Dicts is of that kind).
EncoderDictionary_copy(dict, level) ==
  IF Len(dict) < MinDictSize THEN Some(<<>>)
  ELSE IF IsStructuredDict(dict) THEN None
  ELSE Some(dict)

DecoderDictionary_copy(dict) ==
  IF IsStructuredDict(dict) THEN None ELSE Some(dict)

\* the panic of the dictionary constructors on a null dictionary
NullDictPanic == Err("panic: zstd returned null pointer when creating dict", TRUE)

compress_with_dict(data, dict, level) ==
  LET compression_level == unwrap_or(level, DEFAULT_COMPRESSION_LEVEL)
  IN  IF compression_level < MIN_COMPRESSION_LEVEL \/ compression_level > MAX_COMPRESSION_LEVEL
      THEN LevelError
      ELSE LET dict_trained == EncoderDictionary_copy(dict, compression_level)
           IN  IF dict_trained = None THEN NullDictPanic
               ELSE LET encoder == NewEncoder(compression_level, dict_trained[1])
                        written == EncoderWriteAll(encoder, data)
                    IN  Ok(EncoderFinish(written), TRUE)

decompress(compressed_data) ==
  LET r == ReadToEnd(NewDecoder(compressed_data, <<>>))
  IN  IF r.ok THEN Ok(r.val, TRUE) ELSE Err("Decompression failed", TRUE)

decompress_with_dict(data, dict) ==
  LET dict_trained == DecoderDictionary_copy(dict)
  IN  IF dict_trained = None THEN NullDictPanic
      ELSE LET decoder == NewDecoder(data, dict_trained[1])
               r == ReadToEnd(decoder)
           IN  IF r.ok THEN Ok(r.val, TRUE) ELSE Err("incomplete frame", TRUE)

\* ------------------------------------------------------ size utility
\* usize on the wasm32 target, held as <<high half, low half>> of 16 bits each
Half == 2 ^ 16
U(hi, lo) == <<hi, lo>>
ULess(a, b) == a[1] < b[1] \/ (a[1] = b[1] /\ a[2] < b[2])
UAddSmall(a, k) ==
  LET lo == a[2] + k
  IN  <<(a[1] + lo \div Half) % Half, lo % Half>>
UAdd(a, b) ==
  LET lo == a[2] + b[2]
  IN  <<(a[1] + b[1] + lo \div Half) % Half, lo % Half>>
UShr8(a) == <<a[1] \div 256, (a[1] % 256) * 256 + a[2] \div 256>>

ZSTD_MAX_INPUT_SIZE == U(65280, 65280)
ZSTD_error_srcSize_wrong == 72
\* (size_t)-ZSTD_error_srcSize_wrong
ErrorCode(e) == U(Half - 1, Half - e)

\* ZSTD_compressBound: srcSize + (srcSize >> 8) + margin below 128 KB, and the
\* error code srcSize_wrong, as a size, from ZSTD_MAX_INPUT_SIZE on
ZSTD_compressBound(srcSize) ==
  IF ~ULess(srcSize, ZSTD_MAX_INPUT_SIZE) THEN ErrorCode(ZSTD_error_srcSize_wrong)
  ELSE LET margin == IF srcSize[1] < 2
                     THEN (2 * Half - (srcSize[1] * Half + srcSize[2])) \div 2048
                     ELSE 0
       IN  UAddSmall(UAdd(srcSize, UShr8(srcSize)), margin)

compress_bound(input_size) == ZSTD_compressBound(input_size)

\* sizes a caller may pass, up to usize::MAX
SizeInputs ==
  {U(0, 0), U(0, 1), U(0, 1000), U(1, Half - 1), U(2, 0), U(65280, 65279),
   ZSTD_MAX_INPUT_SIZE, U(Half - 1, Half - 73), U(Half - 1, Half - 72),
   U(Half - 1, Half - 71), U(Half - 1, Half - 1)}

\* Zstd::default_compression_level / min_compression_level / max_compression_level
default_compression_level == DEFAULT_COMPRESSION_LEVEL
min_compression_level == MIN_COMPRESSION_LEVEL
max_compression_level == MAX_COMPRESSION_LEVEL

\* f64 values: a quotient n/d in lowest terms with d > 0, an infinity or NaN.
\* Quotients are exact; the rounding of f64 is not modelled.
Abs(x) == IF x < 0 THEN -x ELSE x

RECURSIVE GCD(_, _)
GCD(a, b) == IF b = 0 THEN a ELSE GCD(b, a % b)

NaN == [kind |-> "nan", n |-> 0, d |-> 0]
Inf(sign) == [kind |-> "inf", n |-> sign, d |-> 0]
F64(n, d) ==
  IF d = 0 THEN (IF n = 0 THEN NaN ELSE Inf(IF n < 0 THEN -1 ELSE 1))
  ELSE LET g == GCD(Abs(n), Abs(d))
           sgn == IF d < 0 THEN -1 ELSE 1
       IN  [kind |-> "num", n |-> sgn * (n \div g), d |-> Abs(d) \div g]

\* usize as f64
AsF64(u) == F64(u[1] * Half + u[2], 1)

FDiv(a, b) ==
  IF a.kind = "num" /\ b.kind = "num" THEN F64(a.n * b.d, a.d * b.n) ELSE NaN
FSub(a, b) ==
  IF a.kind = "num" /\ b.kind = "num" THEN F64(a.n * b.d - b.n * a.d, a.d * b.d)
  ELSE IF b.kind = "inf" /\ a.kind = "num" THEN Inf(-b.n)
  ELSE NaN
FMul(a, b) ==
  IF a.kind = "num" /\ b.kind = "num" THEN F64(a.n * b.n, a.d * b.d)
  ELSE IF a.kind = "inf" /\ b.kind = "num" /\ b.n # 0 THEN Inf(IF b.n < 0 THEN -a.n ELSE a.n)
  ELSE NaN

compression_ratio(original_size, compressed_size) ==
  IF original_size = U(0, 0) THEN F64(0, 1)
  ELSE FDiv(AsF64(compressed_size), AsF64(original_size))

\* space_savings without the test for an original size of 0
space_savings_unchecked(original_size, compressed_size) ==
  FMul(FSub(F64(1, 1), FDiv(AsF64(compressed_size), AsF64(original_size))), F64(100, 1))

space_savings(original_size, compressed_size) ==
  IF original_size = U(0, 0) THEN F64(0, 1)
  ELSE FMul(FSub(F64(1, 1), FDiv(AsF64(compressed_size), AsF64(original_size))),
            F64(100, 1))

\* sizes a caller reports for a ratio
RatioInputs == {U(0, 0), U(0, 1), U(0, 3), U(0, 250), U(0, 1000)}

\* ------------------------------------------------ streaming sessions
\* ZstdCompressor { encoder: Option<Encoder> }

\* Write::flush: the buffered input goes out as a block of its own
EncoderFlush(enc) ==
  IF ~enc.started
  THEN [enc EXCEPT !.started = TRUE,
                   !.out = Magic \o <<FHD_Window, WindowDescriptor(enc.level)>>]
  ELSE IF enc.inBuff = <<>> THEN enc
  ELSE [enc EXCEPT !.inBuff = <<>>,
                   !.out = enc.out \o EncodeBlock(enc.inBuff, 0, enc.dict)]

\* constructor that takes 0 for the lowest level
ZstdCompressor_new_from_zero(level) ==
  LET compression_level == unwrap_or(level, DEFAULT_COMPRESSION_LEVEL)
  IN  IF compression_level < 0 \/ compression_level > MAX_COMPRESSION_LEVEL
      THEN [res |-> LevelError, created |-> FALSE, encoder |-> None]
      ELSE [res |-> Ok(<<>>, TRUE), created |-> TRUE,
            encoder |-> Some(NewEncoder(compression_level, <<>>))]

ZstdCompressor_new(level) ==
  LET compression_level == unwrap_or(level, DEFAULT_COMPRESSION_LEVEL)
  IN  IF compression_level < MIN_COMPRESSION_LEVEL \/ compression_level > MAX_COMPRESSION_LEVEL
      THEN [res |-> LevelError, created |-> FALSE, encoder |-> None]
      ELSE [res |-> Ok(<<>>, TRUE), created |-> TRUE,
            encoder |-> Some(NewEncoder(compression_level, <<>>))]

\* compress_chunk that flushes the encoder after every chunk
compress_chunk_flushing(encoder, data) ==
  IF encoder # None
  THEN [encoder |-> Some(EncoderFlush(EncoderWriteAll(encoder[1], data))),
        res |-> Ok(<<>>, TRUE)]
  ELSE [encoder |-> encoder, res |-> Err("Compressor has been finalized", FALSE)]

\* compress_chunk that hands back what the encoder has written to its sink
compress_chunk_returning(encoder, data) ==
  IF encoder # None
  THEN [encoder |-> Some(EncoderWriteAll(encoder[1], data)),
        res |-> Ok(EncoderWriteAll(encoder[1], data).out, TRUE)]
  ELSE [encoder |-> encoder, res |-> Err("Compressor has been finalized", FALSE)]

compress_chunk(encoder, data) ==
  IF encoder # None
  THEN [encoder |-> Some(EncoderWriteAll(encoder[1], data)), res |-> Ok(<<>>, TRUE)]
  ELSE [encoder |-> encoder, res |-> Err("Compressor has been finalized", FALSE)]

\* compress_chunk when write_all returns an error: the `?` returns the error
\* through the borrow of self.encoder, which stays Some; the encoder is taken
\* to have consumed none of the chunk
compress_chunk_write_error(encoder, data) ==
  IF encoder # None
  THEN [encoder |-> encoder, res |-> Err("Compression failed", TRUE)]
  ELSE [encoder |-> encoder, res |-> Err("Compressor has been finalized", FALSE)]

\* finalize when finish() returns an error: the encoder was moved out of
\* self.encoder by take() before finish ran and is dropped with the error
ZstdCompressor_finalize_finish_error(encoder) ==
  IF encoder # None
  THEN [encoder |-> None, res |-> Err("Finalization failed", TRUE)]
  ELSE [encoder |-> None, res |-> Err("Compressor has already been finalized", FALSE)]

\* finalize that borrows the encoder instead of taking it
ZstdCompressor_finalize_borrowing(encoder) ==
  IF encoder # None
  THEN [encoder |-> encoder, res |-> Ok(EncoderFinish(encoder[1]), TRUE)]
  ELSE [encoder |-> None, res |-> Err("Compressor has already been finalized", FALSE)]

\* finalize that returns the sink without finishing the frame
ZstdCompressor_finalize_unfinished(encoder) ==
  IF encoder # None
  THEN [encoder |-> None, res |-> Ok(encoder[1].out, TRUE)]
  ELSE [encoder |-> None, res |-> Err("Compressor has already been finalized", FALSE)]

ZstdCompressor_finalize(encoder) ==
  IF encoder # None
  THEN [encoder |-> None, res |-> Ok(EncoderFinish(encoder[1]), TRUE)]
  ELSE [encoder |-> None, res |-> Err("Compressor has already been finalized", FALSE)]

\* ZstdDecompressor { decoder: Option<Decoder> }
ZstdDecompressor_new(compressed_data) ==
  [res |-> Ok(<<>>, TRUE), created |-> TRUE,
   decoder |-> Some(NewDecoder(compressed_data, <<>>))]

\* Read::read on the decoder with a buffer of n bytes: the outcomes
\* [dec, ok, n] a call may have.  With bytes still to deliver a read returns
\* between 1 and n of them; with an empty buffer nothing can be delivered and
\* the call either returns 0 or fails for lack of forward progress, depending
\* on the codec build.  With nothing left it returns 0 after a complete frame
\* and the decoder's error otherwise.
DecoderRead(dec, n) ==
  LET d == Decoded(dec)
      pending == Len(d.data) - dec.pos
  IN  IF pending > 0
      THEN IF n = 0
           THEN {[dec |-> dec, ok |-> TRUE, n |-> 0], [dec |-> dec, ok |-> FALSE, n |-> 0]}
           ELSE {[dec |-> [dec EXCEPT !.pos = dec.pos + k], ok |-> TRUE, n |-> k] :
                   k \in 1..Min(n, pending)}
      ELSE {[dec |-> dec, ok |-> d.ok, n |-> 0]}

\* the bytes a read of k bytes at position pos stored in the buffer
Delivered(dec, k) == SubSeq(Decoded(dec).data, dec.pos + 1, dec.pos + k)

\* decompress_chunk that returns the whole buffer, without truncate
decompress_chunk_untruncated(decoder, max_output_size) ==
  IF decoder = None
  THEN {[decoder |-> decoder, res |-> Err("Decompressor has been finalized/consumed.", FALSE)]}
  ELSE {IF r.ok
        THEN [decoder |-> Some(r.dec),
              res |-> Ok(Delivered(decoder[1], r.n) \o Repeat(0, max_output_size - r.n), TRUE)]
        ELSE [decoder |-> Some(r.dec), res |-> Err("Decompression failed", TRUE)] :
          r \in DecoderRead(decoder[1], max_output_size)}

\* decompress_chunk that drops the decoder once a read delivers nothing
decompress_chunk_closing(decoder, max_output_size) ==
  IF decoder = None
  THEN {[decoder |-> decoder, res |-> Err("Decompressor has been finalized/consumed.", FALSE)]}
  ELSE {IF r.ok
        THEN [decoder |-> IF r.n = 0 THEN None ELSE Some(r.dec),
              res |-> Ok(Delivered(decoder[1], r.n), TRUE)]
        ELSE [decoder |-> Some(r.dec), res |-> Err("Decompression failed", TRUE)] :
          r \in DecoderRead(decoder[1], max_output_size)}

\* decompress_chunk whose buffer is one byte longer than max_output_size
decompress_chunk_oversized(decoder, max_output_size) ==
  IF decoder = None
  THEN {[decoder |-> decoder, res |-> Err("Decompressor has been finalized/consumed.", FALSE)]}
  ELSE {IF r.ok
        THEN [decoder |-> Some(r.dec), res |-> Ok(Delivered(decoder[1], r.n), TRUE)]
        ELSE [decoder |-> Some(r.dec), res |-> Err("Decompression failed", TRUE)] :
          r \in DecoderRead(decoder[1], max_output_size + 1)}

\* decompress_chunk whose buffer is Vec::with_capacity(max_output_size), of
\* length 0
decompress_chunk_with_capacity(decoder, max_output_size) ==
  IF decoder = None
  THEN {[decoder |-> decoder, res |-> Err("Decompressor has been finalized/consumed.", FALSE)]}
  ELSE {IF r.ok
        THEN [decoder |-> Some(r.dec), res |-> Ok(Delivered(decoder[1], r.n), TRUE)]
        ELSE [decoder |-> Some(r.dec), res |-> Err("Decompression failed", TRUE)] :
          r \in DecoderRead(decoder[1], 0)}

\* decompress_chunk that takes the decoder out of the Option and puts it
\* back only after a successful read
decompress_chunk_taking(decoder, max_output_size) ==
  IF decoder = None
  THEN {[decoder |-> decoder, res |-> Err("Decompressor has been finalized/consumed.", FALSE)]}
  ELSE {IF r.ok
        THEN [decoder |-> Some(r.dec), res |-> Ok(Delivered(decoder[1], r.n), TRUE)]
        ELSE [decoder |-> None, res |-> Err("Decompression failed", TRUE)] :
          r \in DecoderRead(decoder[1], max_output_size)}

\* buffer = vec![0u8; max_output_size]; read; truncate(bytes_read)
decompress_chunk(decoder, max_output_size) ==
  IF decoder = None
  THEN {[decoder |-> decoder, res |-> Err("Decompressor has been finalized/consumed.", FALSE)]}
  ELSE {IF r.ok
        THEN [decoder |-> Some(r.dec), res |-> Ok(Delivered(decoder[1], r.n), TRUE)]
        ELSE [decoder |-> Some(r.dec), res |-> Err("Decompression failed", TRUE)] :
          r \in DecoderRead(decoder[1], max_output_size)}

\* finalize that puts the decoder back when read_to_end fails
ZstdDecompressor_finalize_restoring(decoder) ==
  IF decoder # None
  THEN LET r == ReadToEnd(decoder[1])
       IN  [decoder |-> IF r.ok THEN None ELSE decoder,
            res |-> IF r.ok THEN Ok(r.val, TRUE) ELSE Err("Final read failed", TRUE)]
  ELSE [decoder |-> None, res |-> Err("Decompressor has already been finalized", FALSE)]

\* finalize that reads to the end through a borrow, leaving the decoder in place
ZstdDecompressor_finalize_borrowing(decoder) ==
  IF decoder # None
  THEN LET r == ReadToEnd(decoder[1])
       IN  [decoder |-> Some([decoder[1] EXCEPT !.pos = Len(Decoded(decoder[1]).data)]),
            res |-> IF r.ok THEN Ok(r.val, TRUE) ELSE Err("Final read failed", TRUE)]
  ELSE [decoder |-> None, res |-> Err("Decompressor has already been finalized", FALSE)]

ZstdDecompressor_finalize(decoder) ==
  IF decoder # None
  THEN LET r == ReadToEnd(decoder[1])
       IN  [decoder |-> None,
            res |-> IF r.ok THEN Ok(r.val, TRUE) ELSE Err("Final read failed", TRUE)]
  ELSE [decoder |-> None, res |-> Err("Decompressor has already been finalized", FALSE)]

\* the messages with which a finalized session rejects a call
AlreadyFinalized ==
  {"Compressor has been finalized", "Compressor has already been finalized",
   "Decompressor has been finalized/consumed.", "Decompressor has already been finalized"}

\* ------------------------------------------------------------- state
VARIABLES
  cExists,   \* a ZstdCompressor has been constructed
  encoder,   \* ZstdCompressor.encoder
  cLevel,    \* the level argument the compressor was constructed with
  cFed,      \* concatenation of the chunks compress_chunk accepted
  cFeeds,    \* number of non-empty chunks compress_chunk accepted
  cRes,      \* the last call on the compressor and what it returned
  cDone,     \* a finalize of the compressor has returned Ok
  dExists,   \* a ZstdDecompressor has been constructed
  decoder,   \* ZstdDecompressor.decoder
  dInput,    \* the compressed buffer the decompressor was constructed over
  dAcc,      \* concatenation of the results of successful decompress_chunk calls
  dRes,      \* the last call on the decompressor and what it returned
  dDone,     \* a finalize of the decompressor has returned Ok
  args,      \* the arguments the caller holds for the stateless functions
  call,      \* the last call of a stateless function and what it returned
  loop       \* the caller's drain loop: its position, chunk size and count of non-empty chunks

cVars == <<cExists, encoder, cLevel, cFed, cFeeds, cRes, cDone>>
dVars == <<dExists, decoder, dInput, dAcc, dRes, dDone>>
vars == <<cExists, encoder, cLevel, cFed, cFeeds, cRes, cDone,
          dExists, decoder, dInput, dAcc, dRes, dDone, args, call, loop>>

\* compressed buffers a caller may hold: frames made by compress, two frames
\* back to back, and buffers that are not a sequence of complete frames
Frame(d, l) == compress(d, Some(l)).val
ValidBuffers ==
  {Frame(d, l) : d \in Data, l \in {1, DEFAULT_COMPRESSION_LEVEL}}
    \cup {Frame(<<0>>, 1) \o Frame(<<1, 1>>, 1)}
CorruptBuffers ==
  {<<>>, <<1, 2, 3, 4, 5, 6>>, Magic,
   SubSeq(Frame(<<0, 1, 0>>, 1), 1, Len(Frame(<<0, 1, 0>>, 1)) - 1),
   Magic \o <<FHD_Window, 88, BlockHeader(0, BT_Raw, 1), 1, BlockHeader(1, 3, 1), 0>>}
Buffers == ValidBuffers \cup CorruptBuffers
IsValid(c) == DecodeFrames(c, <<>>, <<>>).ok
ChunkSizes == 0..MaxChunk

NoCall ==
  [op |-> "none", data |-> <<>>, dict |-> <<>>, level |-> None, size |-> U(0, 0),
   r |-> Ok(<<>>, FALSE), bound |-> U(0, 0), created |-> FALSE, from |-> "none",
   fromData |-> <<>>, fromDict |-> <<>>, fromLevel |-> None,
   session |-> None, ret |-> 0, size2 |-> U(0, 0), f |-> F64(0, 1)]
NoRes == [op |-> "none", open |-> FALSE, arg |-> 0, r |-> Ok(<<>>, FALSE)]

\* the arguments of a stateless call: data, dictionary and level, or a size
NoArgs ==
  [data |-> <<>>, dict |-> <<>>, level |-> None, size |-> U(0, 0), size2 |-> U(0, 0)]
CallArgs ==
  {[NoArgs EXCEPT !.data = d, !.dict = dict, !.level = l] :
     d \in Data, dict \in Dicts, l \in LevelInputs}
    \cup {[NoArgs EXCEPT !.size = n] : n \in SizeInputs}
    \cup {[NoArgs EXCEPT !.size = o, !.size2 = c] : o \in RatioInputs, c \in RatioInputs}

Sessions ==
  /\ cExists = FALSE /\ encoder = None /\ cLevel = None /\ cFed = <<>> /\ cFeeds = 0
  /\ cRes = NoRes /\ cDone = FALSE
  /\ dExists = FALSE /\ decoder = None /\ dInput = <<>> /\ dAcc = <<>>
  /\ dRes = NoRes /\ dDone = FALSE
  /\ call = NoCall

\* no drain loop is running
NoLoop == [pc |-> "none", n |-> 0, reads |-> 0]

Init == Sessions /\ args = NoArgs /\ loop = NoLoop
InitCalls == Sessions /\ args \in CallArgs /\ loop = NoLoop

\* a caller about to drain a buffer with a fixed chunk size of at least 1
InitDrain ==
  /\ Sessions /\ args = NoArgs
  /\ loop \in {[pc |-> "loop", n |-> k, reads |-> 0] : k \in 1..MaxChunk}

\* ------------------------------------------- compression session steps
CNew(level) ==
  /\ ~cExists
  /\ LET n == ZstdCompressor_new(level)
     IN  /\ cExists' = n.created
         /\ encoder' = n.encoder
         /\ cLevel' = level
         /\ cRes' = [op |-> "new", open |-> FALSE, arg |-> 0, r |-> n.res]
  /\ UNCHANGED <<cFed, cFeeds, cDone, dVars, args, call, loop>>

CCompressChunk(data) ==
  /\ cExists
  /\ Len(cFed) + Len(data) <= MaxLen
  /\ LET o == compress_chunk(encoder, data)
     IN  /\ encoder' = o.encoder
         /\ cFed' = IF o.res.ok THEN cFed \o data ELSE cFed
         /\ cFeeds' = IF o.res.ok /\ data # <<>> THEN cFeeds + 1 ELSE cFeeds
         /\ cRes' = [op |-> "compress_chunk", open |-> encoder # None, arg |-> Len(data),
                     r |-> o.res]
  /\ UNCHANGED <<cExists, cLevel, cDone, dVars, args, call, loop>>

CFinalize ==
  /\ cExists
  /\ LET o == ZstdCompressor_finalize(encoder)
     IN  /\ encoder' = o.encoder
         /\ cDone' = (cDone \/ o.res.ok)
         /\ cRes' = [op |-> "finalize", open |-> encoder # None, arg |-> 0, r |-> o.res]
  /\ UNCHANGED <<cExists, cLevel, cFed, cFeeds, dVars, args, call, loop>>

\* a compress_chunk on an open session whose write_all fails
CCompressChunkFails(data) ==
  /\ cExists
  /\ encoder # None
  /\ LET o == compress_chunk_write_error(encoder, data)
     IN  /\ encoder' = o.encoder
         /\ cRes' = [op |-> "compress_chunk", open |-> encoder # None, arg |-> Len(data),
                     r |-> o.res]
  /\ UNCHANGED <<cExists, cLevel, cFed, cFeeds, cDone, dVars, args, call, loop>>

\* a finalize on an open session whose finish fails
CFinalizeFails ==
  /\ cExists
  /\ encoder # None
  /\ LET o == ZstdCompressor_finalize_finish_error(encoder)
     IN  /\ encoder' = o.encoder
         /\ cRes' = [op |-> "finalize", open |-> encoder # None, arg |-> 0, r |-> o.res]
  /\ UNCHANGED <<cExists, cLevel, cFed, cFeeds, cDone, dVars, args, call, loop>>

\* ----------------------------------------- decompression session steps
DNew(compressed_data) ==
  /\ ~dExists
  /\ LET n == ZstdDecompressor_new(compressed_data)
     IN  /\ dExists' = n.created
         /\ decoder' = n.decoder
         /\ dInput' = compressed_data
         /\ dRes' = [op |-> "new", open |-> FALSE, arg |-> 0, r |-> n.res]
  /\ UNCHANGED <<dAcc, dDone, cVars, args, call, loop>>

\* the session after a decompress_chunk(max_output_size) with outcome o
DecompressChunkReturns(max_output_size, o) ==
  /\ decoder' = o.decoder
  /\ dAcc' = IF o.res.ok THEN dAcc \o o.res.val ELSE dAcc
  /\ dRes' = [op |-> "decompress_chunk", open |-> decoder # None,
              arg |-> max_output_size, r |-> o.res]
  /\ UNCHANGED <<dExists, dInput, dDone, cVars, args, call>>

DDecompressChunk(max_output_size) ==
  /\ dExists
  /\ \E o \in decompress_chunk(decoder, max_output_size) :
       DecompressChunkReturns(max_output_size, o)
  /\ UNCHANGED loop

\* the caller of the drain loop opens the session over a valid buffer
DrainOpen(c) ==
  /\ loop.pc = "loop"
  /\ DNew(c)

\* one iteration of `loop { chunk = decompress_chunk(chunk_size).expect(..);
\* if chunk.is_empty() { break } ... }`
DrainStep ==
  /\ loop.pc = "loop"
  /\ dExists
  /\ \E o \in decompress_chunk(decoder, loop.n) :
       /\ DecompressChunkReturns(loop.n, o)
       /\ loop' = IF ~o.res.ok THEN [loop EXCEPT !.pc = "panicked"]
                  ELSE IF o.res.val = <<>> THEN [loop EXCEPT !.pc = "done"]
                  ELSE [loop EXCEPT !.reads = loop.reads + 1]

DFinalize ==
  /\ dExists
  /\ LET o == ZstdDecompressor_finalize(decoder)
     IN  /\ decoder' = o.decoder
         /\ dDone' = (dDone \/ o.res.ok)
         /\ dRes' = [op |-> "finalize", open |-> decoder # None, arg |-> 0, r |-> o.res]
  /\ UNCHANGED <<dExists, dInput, dAcc, cVars, args, call, loop>>

\* ------------------------------------------------ stateless calls
CallCompress ==
  /\ call' = [NoCall EXCEPT !.op = "compress", !.data = args.data, !.level = args.level,
                            !.r = compress(args.data, args.level)]
  /\ UNCHANGED <<cVars, dVars, args, loop>>

CallCompressWithDict ==
  /\ call' = [NoCall EXCEPT !.op = "compress_with_dict", !.data = args.data,
                            !.dict = args.dict, !.level = args.level,
                            !.r = compress_with_dict(args.data, args.dict, args.level)]
  /\ UNCHANGED <<cVars, dVars, args, loop>>

\* decompress what the last compress call returned
CallDecompress ==
  /\ call.op \in {"compress", "compress_with_dict"}
  /\ call.r.ok
  /\ call' = [NoCall EXCEPT !.op = "decompress", !.data = call.r.val,
                            !.r = decompress(call.r.val),
                            !.from = call.op, !.fromData = call.data,
                            !.fromDict = call.dict, !.fromLevel = call.level]
  /\ UNCHANGED <<cVars, dVars, args, loop>>

CallDecompressWithDict(dict) ==
  /\ call.op \in {"compress", "compress_with_dict"}
  /\ call.r.ok
  /\ call' = [NoCall EXCEPT !.op = "decompress_with_dict", !.data = call.r.val,
                            !.dict = dict, !.r = decompress_with_dict(call.r.val, dict),
                            !.from = call.op, !.fromData = call.data,
                            !.fromDict = call.dict, !.fromLevel = call.level]
  /\ UNCHANGED <<cVars, dVars, args, loop>>

\* decompress a buffer that did not come from this library
CallDecompressBuffer(c) ==
  /\ call' = [NoCall EXCEPT !.op = "decompress", !.data = c, !.r = decompress(c)]
  /\ UNCHANGED <<cVars, dVars, args, loop>>

CallNew ==
  /\ LET n == ZstdCompressor_new(args.level)
     IN  call' = [NoCall EXCEPT !.op = "new", !.level = args.level, !.r = n.res,
                                !.created = n.created, !.session = n.encoder]
  /\ UNCHANGED <<cVars, dVars, args, loop>>

CallCompressBound ==
  /\ call' = [NoCall EXCEPT !.op = "compress_bound", !.size = args.size,
                            !.bound = compress_bound(args.size)]
  /\ UNCHANGED <<cVars, dVars, args, loop>>

CallDefaultCompressionLevel ==
  /\ call' = [NoCall EXCEPT !.op = "default_compression_level",
                            !.ret = default_compression_level]
  /\ UNCHANGED <<cVars, dVars, args, loop>>

CallMinCompressionLevel ==
  /\ call' = [NoCall EXCEPT !.op = "min_compression_level", !.ret = min_compression_level]
  /\ UNCHANGED <<cVars, dVars, args, loop>>

CallMaxCompressionLevel ==
  /\ call' = [NoCall EXCEPT !.op = "max_compression_level", !.ret = max_compression_level]
  /\ UNCHANGED <<cVars, dVars, args, loop>>

CallCompressionRatio ==
  /\ args.size \in RatioInputs /\ args.size2 \in RatioInputs
  /\ call' = [NoCall EXCEPT !.op = "compression_ratio", !.size = args.size,
                            !.size2 = args.size2,
                            !.f = compression_ratio(args.size, args.size2)]
  /\ UNCHANGED <<cVars, dVars, args, loop>>

CallSpaceSavings ==
  /\ args.size \in RatioInputs /\ args.size2 \in RatioInputs
  /\ call' = [NoCall EXCEPT !.op = "space_savings", !.size = args.size,
                            !.size2 = args.size2,
                            !.f = space_savings(args.size, args.size2)]
  /\ UNCHANGED <<cVars, dVars, args, loop>>

NextCompressor ==
  \/ \E level \in LevelInputs : CNew(level)
  \/ \E data \in Data : CCompressChunk(data)
  \/ CFinalize

NextDecompressor ==
  \/ \E c \in Buffers : DNew(c)
  \/ \E n \in ChunkSizes : DDecompressChunk(n)
  \/ DFinalize

NextCalls ==
  \/ CallCompress
  \/ CallCompressWithDict
  \/ CallDecompress
  \/ \E dict \in Dicts : CallDecompressWithDict(dict)
  \/ \E c \in CorruptBuffers : CallDecompressBuffer(c)
  \/ CallNew
  \/ CallCompressBound
  \/ CallDefaultCompressionLevel
  \/ CallMinCompressionLevel
  \/ CallMaxCompressionLevel
  \/ CallCompressionRatio
  \/ CallSpaceSavings

\* one session of either type, with the encoder's write and finish allowed to
\* fail; the two session types share no state, so a behaviour holds one of them
NextSessions ==
  \/ ~dExists /\ NextCompressor
  \/ ~dExists /\ \E data \in Data : CCompressChunkFails(data)
  \/ ~dExists /\ CFinalizeFails
  \/ ~cExists /\ NextDecompressor

NextDrain ==
  \/ \E c \in ValidBuffers : DrainOpen(c)
  \/ DrainStep

SpecCompressor == Init /\ [][NextCompressor]_vars
SpecDecompressor == Init /\ [][NextDecompressor]_vars
SpecCalls == InitCalls /\ [][NextCalls]_vars
SpecSessions == Init /\ [][NextSessions]_vars
\* the loop is sequential code: an iteration that can run does run
SpecDrain == InitDrain /\ [][NextDrain]_vars /\ WF_vars(DrainStep)

\* ------------------------------------------------------------ claims
InRange(level) == 1 <= unwrap_or(level, 6) /\ unwrap_or(level, 6) <= 22

\* C1: once a finalize of the compressor has returned Ok, every later
\* compress_chunk or finalize call returns the AlreadyFinalized error, never
\* Ok, and the encoder stays gone.
C1_CompressorFinalizeOnce ==
  [][cDone => /\ ~cRes'.r.ok
              /\ cRes'.r.err \in AlreadyFinalized
              /\ encoder' = None
              /\ cDone']_cVars

\* a chunk was fed after a successful finalize, and was rejected
C1_Witness ==
  cDone /\ cRes.op = "compress_chunk" /\ cRes.arg > 0 /\ cRes.r.err \in AlreadyFinalized

\* C2: once a finalize of the decompressor has returned Ok, every later
\* decompress_chunk call, whatever max_output_size (0 included), and every later
\* finalize call returns the AlreadyFinalized error and no bytes.
C2_DecompressorFinalizeOnce ==
  [][dDone => /\ ~dRes'.r.ok
              /\ dRes'.r.err \in AlreadyFinalized
              /\ dRes'.r.val = <<>>
              /\ decoder' = None
              /\ dDone']_dVars

\* decompress_chunk(0) was called after a successful finalize, and was rejected
C2_Witness ==
  dDone /\ dRes.op = "decompress_chunk" /\ dRes.arg = 0 /\ dRes.r.err \in AlreadyFinalized

\* C3: the first finalize of a compressor opened at level l returns exactly the
\* bytes of the one-shot compress(d, l), d being the concatenation of the chunks
\* fed, however d was split into chunks.
C3_StreamingCompressEqualsOneShot ==
  (cRes.op = "finalize" /\ cRes.open) =>
    /\ cRes.r.ok
    /\ compress(cFed, cLevel).ok
    /\ cRes.r.val = compress(cFed, cLevel).val

\* a session fed at least a block of data in two or more chunks was finalized
C3_Witness ==
  /\ cRes.op = "finalize" /\ cRes.open /\ cRes.r.ok
  /\ cFeeds >= 2 /\ Len(cFed) >= BlockSize

\* C4: on a session over a valid buffer every decompress_chunk call succeeds,
\* and when one returns an empty result the results so far, concatenated,
\* equal the one-shot decompress of the buffer, whatever the chunk sizes.
C4_StreamingDecompressEqualsOneShot ==
  (dRes.op = "decompress_chunk" /\ dRes.open /\ IsValid(dInput)) =>
    /\ dRes.r.ok
    /\ dRes.r.val = <<>> => dAcc = decompress(dInput).val

\* C5: the bytes the first finalize of a compressor returns decompress,
\* one-shot, to the concatenation of the chunks fed.
C5_StreamedRoundTrip ==
  (cRes.op = "finalize" /\ cRes.open) =>
    /\ cRes.r.ok
    /\ decompress(cRes.r.val).ok
    /\ decompress(cRes.r.val).val = cFed

\* a session fed in three or more non-empty chunks was finalized
C5_Witness ==
  cRes.op = "finalize" /\ cRes.open /\ cRes.r.ok /\ cFeeds >= 3

\* C6: over a valid buffer, the results of the successful decompress_chunk
\* calls followed by the result of the first finalize equal the one-shot
\* decompress of the buffer.
C6_FinalizeReturnsRemainder ==
  (dRes.op = "finalize" /\ dRes.open /\ IsValid(dInput)) =>
    /\ dRes.r.ok
    /\ dAcc \o dRes.r.val = decompress(dInput).val

\* finalize was called in the middle of a stream: bytes before it and after it
C6_Witness ==
  /\ dRes.op = "finalize" /\ dRes.open /\ IsValid(dInput)
  /\ dAcc # <<>> /\ dRes.r.val # <<>>

\* C7: compress, compress_with_dict and the compressor's constructor reach
\* the codec only with a level in 1..22; with any other level they return the
\* level error, reach no codec call and create no session.
C7_LevelValidation ==
  call.op \in {"compress", "compress_with_dict", "new"} =>
    /\ call.r.codec => InRange(call.level)
    /\ ~InRange(call.level) =>
         /\ ~call.r.ok
         /\ call.r.err = "Compression level must be between 1 and 22"
         /\ ~call.r.codec
         /\ ~call.created

\* the constructor was called with a level just outside the range
C7_Witness ==
  call.op = "new" /\ call.level \in {<<0>>, <<23>>} /\ ~call.r.ok

\* C8: compress at a level in 1..22 succeeds, and decompress of its result
\* returns exactly the data compressed.
C8_RoundTrip ==
  /\ (call.op = "compress" /\ InRange(call.level)) => call.r.ok
  /\ (call.op = "decompress" /\ call.from = "compress") =>
       call.r.ok /\ call.r.val = call.fromData

\* the result of compressing more than a block of data was decompressed
C8_Witness ==
  /\ call.op = "decompress" /\ call.from = "compress"
  /\ Len(call.fromData) = MaxLen /\ call.r.ok

\* C9: compress_with_dict at a level in 1..22 succeeds for every dictionary,
\* and decompress_with_dict of its result with the same dictionary returns
\* exactly the data compressed.
C9_DictRoundTrip ==
  /\ (call.op = "compress_with_dict" /\ InRange(call.level)) => call.r.ok
  /\ (call.op = "decompress_with_dict" /\ call.from = "compress_with_dict"
        /\ call.dict = call.fromDict) =>
       call.r.ok /\ call.r.val = call.fromData

\* C10: compress_bound(n) >= n for every n a usize holds
C10_BoundSafety ==
  call.op = "compress_bound" => ~ULess(call.bound, call.size)

\* C11: with the level omitted, compress, compress_with_dict and the
\* compressor's constructor return what they return for level 6 (the same
\* bytes, the same session), and the level getters return 6, 1 and 22, the
\* default lying inside the range.
C11_DefaultLevel ==
  /\ (call.op = "compress" /\ call.level = None) =>
       call.r = compress(call.data, <<6>>)
  /\ (call.op = "compress_with_dict" /\ call.level = None) =>
       call.r = compress_with_dict(call.data, call.dict, <<6>>)
  /\ (call.op = "new" /\ call.level = None) =>
       /\ call.r = ZstdCompressor_new(<<6>>).res
       /\ call.session = ZstdCompressor_new(<<6>>).encoder
       /\ call.created
  /\ call.op = "default_compression_level" => call.ret = 6
  /\ call.op = "min_compression_level" => call.ret = 1
  /\ call.op = "max_compression_level" => call.ret = 22
  /\ call.op \in {"default_compression_level", "min_compression_level",
                  "max_compression_level"} =>
       /\ min_compression_level <= default_compression_level
       /\ default_compression_level <= max_compression_level

\* compress was called without a level on data that starts a frame with a
\* window descriptor
C11_Witness ==
  call.op = "compress" /\ call.level = None /\ call.data # <<>> /\ call.r.ok

\* C12: compression_ratio and space_savings return 0.0 for an original size
\* of 0 whatever the compressed size; otherwise the ratio is
\* compressed / original and the savings (1 - ratio) * 100, so that
\* (1000, 250) gives 0.25 and 75.0.
C12_RatioAndSavings ==
  LET o == call.size[2]
      c == call.size2[2]
  IN  /\ call.op \in {"compression_ratio", "space_savings"} =>
           /\ call.f.kind = "num"
           /\ o = 0 => call.f = [kind |-> "num", n |-> 0, d |-> 1]
      /\ (call.op = "compression_ratio" /\ o > 0) => call.f.n * o = c * call.f.d
      /\ (call.op = "space_savings" /\ o > 0) =>
           call.f.n * o = 100 * (o - c) * call.f.d
      /\ (call.op = "compression_ratio" /\ o = 1000 /\ c = 250) =>
           call.f = [kind |-> "num", n |-> 1, d |-> 4]
      /\ (call.op = "space_savings" /\ o = 1000 /\ c = 250) =>
           call.f = [kind |-> "num", n |-> 75, d |-> 1]

\* space_savings was asked for an original size of 0 and a compressed size above 0
C12_Witness ==
  call.op = "space_savings" /\ call.size = U(0, 0) /\ call.size2 # U(0, 0)

AtEndOfStream ==
  /\ decoder # None
  /\ IsValid(dInput)
  /\ Pending(decoder[1]) = 0

\* C14: decompress_chunk never moves the session out of Open; once the
\* decoder has reached end-of-stream every further decompress_chunk returns
\* an empty successful result and leaves the session at end-of-stream, and a
\* following finalize succeeds.
C14_EndOfStreamSticky ==
  [][/\ (dRes'.op = "decompress_chunk" /\ decoder # None) => decoder' # None
     /\ (AtEndOfStream /\ dRes'.op = "decompress_chunk") =>
          /\ dRes'.r = Ok(<<>>, TRUE)
          /\ AtEndOfStream'
          /\ dAcc' = dAcc
     /\ (AtEndOfStream /\ dRes'.op = "finalize") => dRes'.r.ok]_dVars

\* a decompress_chunk asking for at least one byte returned an empty result at
\* the end of a non-empty stream and the session is still open
C14_Witness ==
  /\ dRes.op = "decompress_chunk" /\ dRes.open /\ dRes.arg > 0
  /\ dRes.r.ok /\ dRes.r.val = <<>>
  /\ Len(dAcc) > 0
  /\ AtEndOfStream

\* C15: every successful decompress_chunk(max_output_size) returns at most
\* max_output_size bytes, and the results so far, concatenated, are exactly
\* the bytes of the decompressed stream up to the decoder's position: none
\* skipped, repeated, reordered or padded.
C15_CallerBoundedReads ==
  /\ (dRes.op = "decompress_chunk" /\ dRes.r.ok) => Len(dRes.r.val) <= dRes.arg
  /\ decoder # None =>
       /\ decoder[1].pos = Len(dAcc)
       /\ dAcc = SubSeq(Decoded(decoder[1]).data, 1, Len(dAcc))

\* a second non-empty read returned fewer bytes than it was allowed
C15_Witness ==
  /\ dRes.op = "decompress_chunk" /\ dRes.r.ok /\ decoder # None
  /\ dRes.r.val # <<>> /\ Len(dRes.r.val) < dRes.arg
  /\ Len(dAcc) > Len(dRes.r.val)

\* C16: compress_chunk never returns compressed bytes, and the only call on a
\* compression session that returns bytes is the first successful finalize:
\* no call after it returns the frame again.
C16_CompressedOutputOnce ==
  [][/\ cRes'.op = "compress_chunk" => cRes'.r.val = <<>>
     /\ cRes'.r.val # <<>> =>
          /\ cRes'.op = "finalize" /\ cRes'.r.ok
          /\ encoder # None /\ encoder' = None
          /\ ~cDone /\ cDone'
     /\ cDone => (cDone' /\ encoder' = None /\ cRes'.r.val = <<>>)]_cVars

\* after chunks were fed and finalize returned the frame, a second finalize
\* was refused
C16_Witness ==
  /\ cDone /\ cFeeds >= 1
  /\ cRes.op = "finalize" /\ ~cRes.open /\ ~cRes.r.ok

\* the buffer starts with the frame magic followed by a frame header byte
HasFrameHeader(c) ==
  /\ Len(c) > Len(Magic)
  /\ SubSeq(c, 1, Len(Magic)) = Magic

\* C17: ZstdDecompressor::new over a buffer whose frame header is invalid
\* returns an error and creates no open session.
C17_OpenRejectsInvalidHeader ==
  (dRes.op = "new" /\ ~HasFrameHeader(dInput)) =>
    /\ ~dRes.r.ok
    /\ ~dExists
    /\ decoder = None

\* C18: a finalize always leaves the session finalized, also when the
\* underlying finish or read-to-end fails, and on a finalized session of
\* either type every later compress_chunk, decompress_chunk or finalize is
\* refused as already finalized and returns no bytes.
C18_FailedFinalizeConsumes ==
  /\ [][/\ cRes'.op = "finalize" => encoder' = None
        /\ (cExists /\ encoder = None) =>
             /\ encoder' = None
             /\ ~cRes'.r.ok /\ cRes'.r.err \in AlreadyFinalized
             /\ cRes'.r.val = <<>>]_cVars
  /\ [][/\ dRes'.op = "finalize" => decoder' = None
        /\ (dExists /\ decoder = None) =>
             /\ decoder' = None
             /\ ~dRes'.r.ok /\ dRes'.r.err \in AlreadyFinalized
             /\ dRes'.r.val = <<>>]_dVars

\* no finalize of the decompression session has succeeded, yet the session is
\* finalized with bytes still undelivered and a decompress_chunk was refused
C18_Witness ==
  /\ dExists /\ ~dDone /\ decoder = None
  /\ dRes.op = "decompress_chunk" /\ ~dRes.r.ok
  /\ dRes.r.err \in AlreadyFinalized
  /\ Len(dAcc) < Len(DecodeFrames(dInput, <<>>, <<>>).data)

\* C19: a compress_chunk or decompress_chunk call, whether it succeeds,
\* fails or is refused, leaves the session open if it was open and
\* finalized if it was finalized.
C19_OnlyFinalizeChangesLifecycle ==
  /\ [][cRes'.op = "compress_chunk" =>
          /\ cExists' = cExists
          /\ (encoder' = None) <=> (encoder = None)]_cVars
  /\ [][dRes'.op = "decompress_chunk" =>
          /\ dExists' = dExists
          /\ (decoder' = None) <=> (decoder = None)]_dVars

\* a compress_chunk failed on an open session and the session is still open
C19_Witness ==
  /\ cRes.op = "compress_chunk" /\ cRes.open /\ ~cRes.r.ok
  /\ cExists /\ encoder # None

\* C20: over a valid buffer and with a fixed max_output_size of at least 1,
\* every decompress_chunk of the drain loop made before end-of-stream
\* succeeds with at least one byte, the loop never sees more non-empty
\* results than decompress of the buffer has bytes, and it ends on a
\* zero-length result.
C20_DrainLoopTerminates ==
  /\ [][(loop.pc = "loop" /\ dExists /\ Pending(decoder[1]) > 0) =>
          /\ dRes'.r.ok
          /\ Len(dRes'.r.val) >= 1
          /\ loop'.pc = "loop"]_vars
  /\ [](dExists => loop.reads <= Len(decompress(dInput).val))
  /\ [](loop.pc # "panicked")
  /\ [](dExists => <>(loop.pc = "done" /\ dAcc = decompress(dInput).val))

\* the loop has ended after at least two non-empty chunks
C20_Witness ==
  /\ loop.pc = "done"
  /\ loop.reads >= 2

====
